---- MODULE Spec2Model ----
(***************************************************************************)
(* LifeStory API (src/main.py): season and episode CRUD handlers over two  *)
(* document collections, "season" and "episode".                           *)
(*                                                                         *)
(* Strings are sequences of one-character strings, so that identifier      *)
(* parsing (bson ObjectId(s)) and formatting (str(oid)) are computed and   *)
(* not assumed to be inverse of each other.  An ObjectId is the pair       *)
(* <<"ObjectId", bytes>>, bytes a sequence of integers 0..255.             *)
(*                                                                         *)
(* A season document carries _id, title, is_active; the remaining fields   *)
(* of SeasonIn (description, start_date, end_date) are written and read    *)
(* exactly like title and are represented by it.  An episode document      *)
(* carries _id, rating, season_id; title, date and plot_points are written *)
(* and read exactly like rating.                                           *)
(*                                                                         *)
(* A handler is a synchronous function that makes one blocking store call  *)
(* after the other; every store call is one step of the process p that     *)
(* serves the request, and the steps of different requests interleave.     *)
(***************************************************************************)
EXTENDS Integers, Sequences, FiniteSets, TLC

VARIABLES season, episode, nSeason, nEpisode, pc, preq, newId,
          reply, owner, prevSeason, prevEpisode, created, raced

vars == <<season, episode, nSeason, nEpisode, pc, preq, newId,
          reply, owner, prevSeason, prevEpisode, created, raced>>

----------------------------------------------------------------------------
(* Bounds and program constants                                            *)

\* At most MaxSeasons season inserts and MaxEpisodes episode inserts.
MaxSeasons == 2
MaxEpisodes == 2

OidStrLen == 24
RatingMin == 1
RatingMax == 10

----------------------------------------------------------------------------
(* Strings and identifiers                                                 *)

\* Python None: a one-element tuple whose element is not a character, so it
\* differs from every string, the empty string included.
None == <<"None">>

HexLower == <<"0","1","2","3","4","5","6","7","8","9","a","b","c","d","e","f">>
HexUpper == <<"0","1","2","3","4","5","6","7","8","9","A","B","C","D","E","F">>

\* The value of each hexadecimal digit, of either case.
HexDigit ==
    [c \in {HexLower[i] : i \in 1..16} \cup {HexUpper[i] : i \in 1..16} |->
        CHOOSE v \in 0..15 : c = HexLower[v + 1] \/ c = HexUpper[v + 1]]

IsHexChar(c) == c \in DOMAIN HexDigit

HexVal(c) == HexDigit[c]

\* The ASCII whitespace bytes.fromhex skips between two bytes (the vertical
\* tab, which has no spelling here, is skipped as well).
Whitespace == {" ", "\t", "\n", "\f", "\r"}

\* bytes.fromhex raising ValueError.
BadHex == <<-1>>

\* bytes.fromhex(s) from position i on: pairs of hexadecimal digits of
\* either case, with any whitespace between the pairs skipped.
RECURSIVE FromHex(_, _)
FromHex(s, i) ==
    IF i > Len(s) THEN <<>>
    ELSE IF s[i] \in Whitespace THEN FromHex(s, i + 1)
    ELSE IF i + 1 <= Len(s) /\ IsHexChar(s[i]) /\ IsHexChar(s[i + 1])
    THEN LET rest == FromHex(s, i + 2)
         IN IF rest = BadHex THEN BadHex
            ELSE <<16 * HexVal(s[i]) + HexVal(s[i + 1])>> \o rest
    ELSE BadHex

\* The result of a failed ObjectId(s): the handler's except branch is taken.
InvalidId == <<"InvalidId">>

\* An ObjectId value with the given bytes.
MkOid(bytes) == <<"ObjectId", bytes>>

\* isinstance(v, ObjectId), for a value v that is a string, None or an
\* ObjectId.
IsObjectId(v) == Len(v) = 2 /\ v[1] = "ObjectId"

\* ObjectId(s) for a str s: a string of 24 characters is handed to
\* bytes.fromhex and whatever that decodes becomes the identifier (12 bytes
\* for 24 digits, fewer when s contains whitespace); a string of another
\* length or one bytes.fromhex rejects raises InvalidId.
ObjectId(s) ==
    IF Len(s) = OidStrLen
    THEN LET b == FromHex(s, 1)
         IN IF b = BadHex THEN InvalidId ELSE MkOid(b)
    ELSE InvalidId

\* str(oid): two lower-case hexadecimal digits for every byte.
OidToStr(oid) ==
    LET b == oid[2]
    IN [i \in 1..(2 * Len(b)) |->
           IF i % 2 = 1 THEN HexLower[(b[(i + 1) \div 2] \div 16) + 1]
                        ELSE HexLower[(b[i \div 2] % 16) + 1]]

\* The fields whose schema type is bool or int (SeasonIn.is_active,
\* EpisodeIn.rating): never an ObjectId.
ScalarFields == {"is_active", "rating"}

\* to_str_id(doc): when doc has an _id that is not None, _id is replaced by
\* id = str(_id); then every field holding an ObjectId is replaced by its
\* string.
to_str_id(doc) ==
    LET hasId == "_id" \in DOMAIN doc /\ doc._id # None
        d == IF hasId
             THEN [k \in (DOMAIN doc \ {"_id"}) \cup {"id"} |->
                      IF k = "id" THEN OidToStr(doc._id) ELSE doc[k]]
             ELSE doc
    IN [k \in DOMAIN d |->
           IF k \notin ScalarFields /\ IsObjectId(d[k])
           THEN OidToStr(d[k]) ELSE d[k]]

\* The identifier the store generates for the n-th insert into collection
\* c (1 season, 2 episode): fixed timestamp and process bytes, and a counter
\* that differs for every insert of either collection.
GenOid(c, n) == MkOid(<<171, 205, 239, 1, 35, 69, 103, 137, 154, 0, c, n>>)
SeasonOid(n) == GenOid(1, n)
EpisodeOid(n) == GenOid(2, n)

\* s with every letter in lower case: the canonical spelling of s.
ToLower(s) ==
    [i \in 1..Len(s) |->
        IF \E j \in 1..16 : s[i] = HexUpper[j]
        THEN HexLower[CHOOSE j \in 1..16 : s[i] = HexUpper[j]]
        ELSE s[i]]

\* s with every letter in upper case (a request input, not program code).
ToUpper(s) ==
    [i \in 1..Len(s) |->
        IF \E j \in 1..16 : s[i] = HexLower[j]
        THEN HexUpper[CHOOSE j \in 1..16 : s[i] = HexLower[j]]
        ELSE s[i]]

----------------------------------------------------------------------------
(* Request inputs                                                          *)

Titles == {<<"A">>, <<"B">>}

SeasonId(n) == OidToStr(SeasonOid(n))
EpisodeId(n) == OidToStr(EpisodeOid(n))
\* Too short to be an identifier.
Malformed == <<"x", "y", "z">>
\* 24 characters: eight pairs of digits, each followed by a blank.
Spaced ==
    <<"a","a"," ","b","b"," ","c","c"," ","d","d"," ",
      "e","e"," ","f","f"," ","0","0"," ","1","1"," ">>

Ratings == {0, 1, 10, 11}
SeasonRefs == {None, SeasonId(1), SeasonId(2)}
StoredRefs == {None, SeasonId(1)}
EpisodePayloads == [rating : Ratings, season_id : StoredRefs]

----------------------------------------------------------------------------
(* Store primitives                                                        *)

\* create_document(collection, data): insert data under the fresh identifier
\* oid and return the collection and the identifier's string form.
create_document(coll, data, oid) ==
    [coll |-> coll \cup {[k \in DOMAIN data \cup {"_id"} |->
                             IF k = "_id" THEN oid ELSE data[k]]},
     id |-> OidToStr(oid)]

\* get_documents(collection, filter) with an equality filter on at most one
\* field; NoFilter is the empty filter.
NoFilter == <<>>
get_documents(coll, q) ==
    IF q = NoFilter THEN coll
    ELSE {d \in coll : d[q[1]] = q[2]}

\* collection.find_one({"_id": oid})
find_one(coll, oid) ==
    IF \E d \in coll : d._id = oid
    THEN CHOOSE d \in coll : d._id = oid
    ELSE None

\* collection.update_many({}, {"$set": {"is_active": False}})
DeactivateAll_none(coll) == coll
DeactivateAll(coll) == {[d EXCEPT !.is_active = FALSE] : d \in coll}

\* if data.get("is_active"): db["season"].update_many(...)
DeactivateIfActive_always(coll, data) == DeactivateAll(coll)
DeactivateIfActive(coll, data) ==
    IF data.is_active THEN DeactivateAll(coll) ELSE coll

\* collection.find_one_and_update({"_id": oid}, {"$set": data})
find_one_and_update(coll, oid, data) ==
    {IF d._id = oid
     THEN [k \in DOMAIN d |-> IF k \in DOMAIN data THEN data[k] ELSE d[k]]
     ELSE d : d \in coll}

\* collection.delete_one({"_id": oid})
delete_one(coll, oid) == {d \in coll : d._id # oid}

\* episode.update_many({"season_id": sid}, {"$set": {"season_id": None}})
OrphanEpisodes(coll, sid) ==
    {IF d.season_id = sid THEN [d EXCEPT !.season_id = None] ELSE d : d \in coll}

----------------------------------------------------------------------------
(* Schema validation (pydantic, before the handler is called)              *)

\* EpisodeIn: rating: int = Field(..., ge=1, le=10)
EpisodeInValid_strict(p) == p.rating > RatingMin /\ p.rating < RatingMax
EpisodeInValid(p) == p.rating >= RatingMin /\ p.rating <= RatingMax

\* SeasonIn: title required, is_active a boolean.
SeasonInValid(p) == p.title \in Titles /\ p.is_active \in BOOLEAN

Response(status, body) == [status |-> status, body |-> body]

\* The store query of GET /api/episodes
episode_query_season_first(season_id, unsorted) ==
    IF season_id # None THEN <<"season_id", season_id>>
    ELSE IF unsorted THEN <<"season_id", None>>
    ELSE NoFilter
episode_query(season_id, unsorted) ==
    IF unsorted THEN <<"season_id", None>>
    ELSE IF season_id # None THEN <<"season_id", season_id>>
    ELSE NoFilter

----------------------------------------------------------------------------
(* Requests.  Process p serves one request at a time: pc[p] is its         *)
(* position in the handler, preq[p] the request while the handler is       *)
(* between two store calls, newId[p] the handler's new_id.  reply is the   *)
(* latest response sent, with its request.                                 *)
(*                                                                         *)
(* The remaining variables record the past.  nSeason and nEpisode count    *)
(* the inserts of each collection.  owner is 0 before the first request,   *)
(* p while p has received the latest request and no request has ever begun *)
(* while another was being served, and Concurrent from the first such      *)
(* overlap on; prevSeason and prevEpisode hold the collections as the      *)
(* latest request found them, for as long as owner is a process.  created  *)
(* holds the ids returned by season Create whose season no Delete has      *)
(* removed since.  raced records that the final write of a request with    *)
(* is_active = true happened while another request with is_active = true   *)
(* was between its bulk deactivate and its final write.                    *)

Procs == {1, 2}

Concurrent == -1

NoRequest == [op |-> "none"]

Init ==
    /\ season = {}
    /\ episode = {}
    /\ nSeason = 0
    /\ nEpisode = 0
    /\ pc = [p \in Procs |-> "idle"]
    /\ preq = [p \in Procs |-> NoRequest]
    /\ newId = [p \in Procs |-> None]
    /\ reply = [req |-> NoRequest, resp |-> Response(0, None)]
    /\ owner = 0
    /\ prevSeason = {}
    /\ prevEpisode = {}
    /\ created = {}
    /\ raced = FALSE

\* A request reaches process p.
Begin(p) ==
    /\ pc[p] = "idle"
    /\ owner' = IF owner = Concurrent \/ \E q \in Procs \ {p} : pc[q] # "idle"
                THEN Concurrent ELSE p
    /\ prevSeason' = IF owner' = Concurrent THEN {} ELSE season
    /\ prevEpisode' = IF owner' = Concurrent THEN {} ELSE episode

\* The handler of p, serving request r, returns (or raises) resp.
Respond(p, r, resp) ==
    /\ reply' = [req |-> r, resp |-> resp]
    /\ pc' = [pc EXCEPT ![p] = "idle"]
    /\ preq' = [preq EXCEPT ![p] = NoRequest]

\* The handler of p, serving request r, goes on to its store call l.
Goto(p, r, l) ==
    /\ pc' = [pc EXCEPT ![p] = l]
    /\ preq' = [preq EXCEPT ![p] = r]
    /\ UNCHANGED reply

Overlaps(p) ==
    /\ preq[p].payload.is_active
    /\ \E q \in Procs \ {p} :
          pc[q] \in {"insert", "update"} /\ preq[q].payload.is_active

\* GET /api/seasons
list_seasons(p) ==
    /\ Begin(p)
    /\ Respond(p, [op |-> "list_seasons"],
               Response(200,
                  {to_str_id(i) : i \in get_documents(season, NoFilter)}))
    /\ UNCHANGED <<season, episode, nSeason, nEpisode, newId, created, raced>>

\* POST /api/seasons: model_dump and the bulk deactivate
create_season_begin(p, payload) ==
    /\ nSeason + Cardinality({q \in Procs : pc[q] = "insert"}) < MaxSeasons
    /\ SeasonInValid(payload)
    /\ Begin(p)
    /\ season' = DeactivateIfActive(season, payload)
    /\ Goto(p, [op |-> "create_season", payload |-> payload], "insert")
    /\ UNCHANGED <<episode, nSeason, nEpisode, newId, created, raced>>

\* POST /api/seasons: new_id = create_document("season", data)
create_season_insert(p) ==
    /\ pc[p] = "insert"
    /\ LET ins == create_document(season, preq[p].payload,
                                  SeasonOid(nSeason + 1))
       IN /\ season' = ins.coll
          /\ newId' = [newId EXCEPT ![p] = ins.id]
    /\ nSeason' = nSeason + 1
    /\ raced' = (raced \/ Overlaps(p))
    /\ Goto(p, preq[p], "read")
    /\ UNCHANGED <<episode, nEpisode, owner, prevSeason, prevEpisode, created>>

\* POST /api/seasons: find_one of the new document and the response;
\* to_str_id(None) raises TypeError when the document is gone.
create_season_read(p) ==
    /\ pc[p] = "read"
    /\ LET doc == find_one(season, ObjectId(newId[p]))
       IN IF doc = None
          THEN /\ Respond(p, preq[p], Response(500, "TypeError"))
               /\ UNCHANGED created
          ELSE /\ Respond(p, preq[p], Response(200, to_str_id(doc)))
               /\ created' = created \cup {to_str_id(doc).id}
    /\ newId' = [newId EXCEPT ![p] = None]
    /\ UNCHANGED <<season, episode, nSeason, nEpisode, owner, prevSeason,
                   prevEpisode, raced>>

\* PATCH /api/seasons/{season_id}: ObjectId(season_id), model_dump and the
\* bulk deactivate
update_season_begin(p, season_id, payload) ==
    /\ SeasonInValid(payload)
    /\ Begin(p)
    /\ LET r == [op |-> "update_season", id |-> season_id,
                 payload |-> payload]
       IN IF ObjectId(season_id) = InvalidId
          THEN /\ Respond(p, r, Response(400, "Invalid season id"))
               /\ UNCHANGED season
          ELSE /\ season' = DeactivateIfActive(season, payload)
               /\ Goto(p, r, "update")
    /\ UNCHANGED <<episode, nSeason, nEpisode, newId, created, raced>>

\* PATCH /api/seasons/{season_id}: find_one_and_update and the response
update_season_write(p) ==
    /\ pc[p] = "update"
    /\ LET oid == ObjectId(preq[p].id)
           S2 == find_one_and_update(season, oid, preq[p].payload)
           res == find_one(S2, oid)
       IN /\ season' = S2
          /\ IF res = None
             THEN Respond(p, preq[p], Response(404, "Season not found"))
             ELSE Respond(p, preq[p], Response(200, to_str_id(res)))
    /\ raced' = (raced \/ Overlaps(p))
    /\ UNCHANGED <<episode, nSeason, nEpisode, owner, prevSeason, prevEpisode,
                   newId, created>>

\* DELETE /api/seasons/{season_id}: ObjectId(season_id) and delete_one
delete_season_begin(p, season_id) ==
    /\ Begin(p)
    /\ LET r == [op |-> "delete_season", id |-> season_id]
           oid == ObjectId(season_id)
           S1 == delete_one(season, oid)
       IN IF oid = InvalidId
          THEN /\ Respond(p, r, Response(400, "Invalid season id"))
               /\ UNCHANGED <<season, created>>
          ELSE IF S1 = season
          THEN /\ Respond(p, r, Response(404, "Season not found"))
               /\ UNCHANGED <<season, created>>
          ELSE /\ season' = S1
               /\ created' = created \ {OidToStr(oid)}
               /\ Goto(p, r, "orphan")
    /\ UNCHANGED <<episode, nSeason, nEpisode, newId, raced>>

\* DELETE /api/seasons/{season_id}: the episodes' update_many, filtered by
\* the path string, and the response
delete_season_orphan(p) ==
    /\ pc[p] = "orphan"
    /\ episode' = OrphanEpisodes(episode, preq[p].id)
    /\ Respond(p, preq[p], Response(200, "ok"))
    /\ UNCHANGED <<season, nSeason, nEpisode, owner, prevSeason, prevEpisode,
                   newId, created, raced>>

\* GET /api/episodes
list_episodes(p, season_id, unsorted) ==
    /\ Begin(p)
    /\ Respond(p, [op |-> "list_episodes", season_id |-> season_id,
                   unsorted |-> unsorted],
               Response(200,
                  {to_str_id(i) :
                      i \in get_documents(episode,
                                          episode_query(season_id, unsorted))}))
    /\ UNCHANGED <<season, episode, nSeason, nEpisode, newId, created, raced>>

\* POST /api/episodes: validation, model_dump and
\* new_id = create_document("episode", data)
create_episode_begin(p, payload) ==
    /\ nEpisode < MaxEpisodes
    /\ Begin(p)
    /\ LET r == [op |-> "create_episode", payload |-> payload]
       IN IF EpisodeInValid(payload)
          THEN LET ins == create_document(episode, payload,
                                          EpisodeOid(nEpisode + 1))
               IN /\ episode' = ins.coll
                  /\ newId' = [newId EXCEPT ![p] = ins.id]
                  /\ nEpisode' = nEpisode + 1
                  /\ Goto(p, r, "read_episode")
          ELSE /\ Respond(p, r, Response(422, "validation"))
               /\ UNCHANGED <<episode, nEpisode, newId>>
    /\ UNCHANGED <<season, nSeason, created, raced>>

\* POST /api/episodes: find_one of the new document and the response;
\* to_str_id(None) raises TypeError when the document is gone.
create_episode_read(p) ==
    /\ pc[p] = "read_episode"
    /\ LET doc == find_one(episode, ObjectId(newId[p]))
       IN IF doc = None
          THEN Respond(p, preq[p], Response(500, "TypeError"))
          ELSE Respond(p, preq[p], Response(200, to_str_id(doc)))
    /\ newId' = [newId EXCEPT ![p] = None]
    /\ UNCHANGED <<season, episode, nSeason, nEpisode, owner, prevSeason,
                   prevEpisode, created, raced>>

\* PATCH /api/episodes/{episode_id}
update_episode(p, episode_id, payload) ==
    /\ Begin(p)
    /\ LET r == [op |-> "update_episode", id |-> episode_id,
                 payload |-> payload]
       IN IF ~EpisodeInValid(payload)
          THEN /\ Respond(p, r, Response(422, "validation"))
               /\ UNCHANGED episode
          ELSE LET oid == ObjectId(episode_id)
                   E1 == find_one_and_update(episode, oid, payload)
                   res == find_one(E1, oid)
               IN IF oid = InvalidId
                  THEN /\ Respond(p, r, Response(400, "Invalid episode id"))
                       /\ UNCHANGED episode
                  ELSE /\ episode' = E1
                       /\ IF res = None
                          THEN Respond(p, r,
                                       Response(404, "Episode not found"))
                          ELSE Respond(p, r, Response(200, to_str_id(res)))
    /\ UNCHANGED <<season, nSeason, nEpisode, newId, created, raced>>

\* DELETE /api/episodes/{episode_id}
delete_episode(p, episode_id) ==
    /\ Begin(p)
    /\ LET r == [op |-> "delete_episode", id |-> episode_id]
           oid == ObjectId(episode_id)
           E1 == delete_one(episode, oid)
       IN IF oid = InvalidId
          THEN /\ Respond(p, r, Response(400, "Invalid episode id"))
               /\ UNCHANGED episode
          ELSE /\ episode' = E1
               /\ IF E1 = episode
                  THEN Respond(p, r, Response(404, "Episode not found"))
                  ELSE Respond(p, r, Response(200, "ok"))
    /\ UNCHANGED <<season, nSeason, nEpisode, newId, created, raced>>

----------------------------------------------------------------------------
(* Specifications.  Every specification serves its requests by the two    *)
(* processes of Procs, store call by store call.                           *)

\* The season handlers, over one title for Create and another for Update,
\* and the path identifiers of the first season, of an episode (matching no
\* season) and a malformed one.
ConcPayloads == [title : {<<"A">>}, is_active : BOOLEAN]
UpdatePayloads == [title : {<<"B">>}, is_active : BOOLEAN]
ConcPathIds == {SeasonId(1), EpisodeId(1), Malformed}

SeasonNext ==
    \E p \in Procs :
        \/ list_seasons(p)
        \/ \E d \in ConcPayloads : create_season_begin(p, d)
        \/ create_season_insert(p)
        \/ create_season_read(p)
        \/ \E i \in ConcPathIds, d \in UpdatePayloads :
              update_season_begin(p, i, d)
        \/ update_season_write(p)
        \/ \E i \in ConcPathIds : delete_season_begin(p, i)
        \/ delete_season_orphan(p)

SpecSeason == Init /\ [][SeasonNext]_vars

\* The episode handlers, over every rating and query, references to the
\* first season, and the path identifiers of the first episode and a
\* malformed one.
EpisodePathIds == {EpisodeId(1), Malformed}
EpisodeUpdates == [rating : Ratings, season_id : {None}]

EpisodeNext ==
    \E p \in Procs :
        \/ \E s \in SeasonRefs, u \in BOOLEAN : list_episodes(p, s, u)
        \/ \E d \in EpisodePayloads : create_episode_begin(p, d)
        \/ create_episode_read(p)
        \/ \E i \in EpisodePathIds, d \in EpisodeUpdates :
              update_episode(p, i, d)
        \/ \E i \in EpisodePathIds : delete_episode(p, i)

SpecEpisode == Init /\ [][EpisodeNext]_vars

\* The writing handlers of both resources, over a narrow choice of payloads
\* and the path identifiers of the first season in both spellings, of the
\* first episode, a malformed one and the one with blanks.
NarrowSeasonIds == {SeasonId(1), ToUpper(SeasonId(1)), Spaced, Malformed}
NarrowEpisodeIds == {EpisodeId(1), Spaced}
NarrowSeasonPayloads == [title : {<<"A">>}, is_active : {TRUE}]
NarrowEpisodePayloads == [rating : {1}, season_id : {None, SeasonId(1)}]
NarrowEpisodeUpdates == [rating : {1}, season_id : {None}]

Next ==
    \E p \in Procs :
        \/ \E d \in NarrowSeasonPayloads : create_season_begin(p, d)
        \/ create_season_insert(p)
        \/ create_season_read(p)
        \/ \E i \in NarrowSeasonIds, d \in NarrowSeasonPayloads :
              update_season_begin(p, i, d)
        \/ update_season_write(p)
        \/ \E i \in NarrowSeasonIds : delete_season_begin(p, i)
        \/ delete_season_orphan(p)
        \/ \E d \in NarrowEpisodePayloads : create_episode_begin(p, d)
        \/ create_episode_read(p)
        \/ \E i \in NarrowEpisodeIds, d \in NarrowEpisodeUpdates :
              update_episode(p, i, d)
        \/ \E i \in NarrowEpisodeIds : delete_episode(p, i)

Spec == Init /\ [][Next]_vars

----------------------------------------------------------------------------
(* Derived sets                                                            *)

Active(S) == {d \in S : d.is_active}

DocIds(S) == {d._id : d \in S}

----------------------------------------------------------------------------
(* Requests served one at a time: the behaviours in which no request has   *)
(* begun while another was being served.                                   *)

OneAtATime == owner # Concurrent

\* The latest response and its request.
req == reply.req
resp == reply.resp

\* Requests have been served one at a time so far, and the handler of the
\* latest request has returned: reply is its response.
Done == owner \in Procs /\ pc[owner] = "idle"

IsSeasonWrite == Done /\ req.op \in {"create_season", "update_season"}

\* The season a Create or Update request is about.
Target ==
    IF req.op = "create_season" THEN ObjectId(resp.body.id)
    ELSE ObjectId(req.id)

\* C1: with handlers run one at a time, every state reached by season
\* Create, Update and Delete requests, successful or failing, has at most
\* one season with is_active = true.
C1_AtMostOneActive == OneAtATime => Cardinality(Active(season)) <= 1

C1_Witness ==
    /\ IsSeasonWrite
    /\ req.payload.is_active
    /\ Cardinality(season) = 2
    /\ Active(prevSeason) # {}
    /\ Cardinality(Active(season)) = 1

ActivatingWrite ==
    /\ req.payload.is_active
    /\ resp.status = 200

\* C2 as stated: with requests served one at a time, after a Create with
\* is_active = true or a successful Update with is_active = true, exactly
\* one season is active, it is the season created or updated, and every
\* season that was active before is inactive.
C2_AsStated ==
    (IsSeasonWrite /\ ActivatingWrite) =>
        /\ DocIds(Active(season)) = {Target}
        /\ \A d \in Active(prevSeason) :
              \A e \in season : e._id = d._id => ~e.is_active

\* C2 amended: with requests served one at a time, after a Create with
\* is_active = true or a successful Update with is_active = true, exactly
\* one season is active, it is the season created or updated, and every
\* other season that was active before is inactive.
C2_OnlyTargetActive ==
    (IsSeasonWrite /\ ActivatingWrite) =>
        /\ DocIds(Active(season)) = {Target}
        /\ \A d \in Active(prevSeason) :
              \A e \in season :
                 (e._id = d._id /\ e._id # Target) => ~e.is_active

C2_Witness ==
    /\ IsSeasonWrite
    /\ ActivatingWrite
    /\ \E d \in Active(prevSeason) : d._id # Target /\ d._id \in DocIds(season)

\* C10: a season Update that fails with NotFound leaves the season
\* collection unchanged (stated for requests served one at a time).
C10_NotFoundKeepsSeasons ==
    (Done /\ req.op = "update_season" /\ resp.status = 404) =>
        season = prevSeason

----------------------------------------------------------------------------
(* Deleting a season, and the classification of path identifiers           *)

\* C4: a successful Delete of season S, for every identifier string the
\* handler accepts as denoting S, removes S, sets season_id to null on every
\* episode whose season_id was S's id, leaves the season_id of every other
\* episode unchanged and deletes no episode (stated for requests served one
\* at a time).
C4_DeleteOrphansEpisodes ==
    (Done /\ req.op = "delete_season" /\ resp.status = 200) =>
        LET oid == ObjectId(req.id)
            sid == OidToStr(oid)
        IN /\ oid \in DocIds(prevSeason)
           /\ season = {d \in prevSeason : d._id # oid}
           /\ DocIds(episode) = DocIds(prevEpisode)
           /\ \A e \in prevEpisode :
                 \E f \in episode :
                    /\ f._id = e._id
                    /\ f.rating = e.rating
                    /\ f.season_id =
                          IF e.season_id = sid THEN None ELSE e.season_id

IsIdRequest ==
    /\ Done
    /\ req.op \in {"update_season", "delete_season",
                   "update_episode", "delete_episode"}

\* A well-formed store identifier: 24 hexadecimal digits.
WellFormed(s) ==
    /\ Len(s) = 24
    /\ \A i \in 1..Len(s) :
          s[i] \in {"0","1","2","3","4","5","6","7","8","9",
                    "a","b","c","d","e","f","A","B","C","D","E","F"}

\* The documents of the request's collection whose identifier s spells.
Matching(s) ==
    {d \in (IF req.op \in {"update_season", "delete_season"}
            THEN prevSeason ELSE prevEpisode) : OidToStr(d._id) = ToLower(s)}

\* C6: for season and episode Update and Delete requests that reach the
\* handler and are served one at a time, a path identifier that is not
\* well-formed yields 400 and leaves both collections unchanged; a
\* well-formed identifier that matches no document yields 404; a well-formed
\* identifier that matches a document yields success.
C6_IdentifierResults ==
    (IsIdRequest /\ resp.status # 422) =>
        /\ ~WellFormed(req.id) =>
              /\ resp.status = 400
              /\ season = prevSeason
              /\ episode = prevEpisode
        /\ (WellFormed(req.id) /\ Matching(req.id) = {}) => resp.status = 404
        /\ (WellFormed(req.id) /\ Matching(req.id) # {}) => resp.status = 200

----------------------------------------------------------------------------
(* Steps of requests served concurrently                                   *)

\* The processes whose position in a handler the step changes.
Acting == {p \in Procs : pc'[p] # pc[p]}

\* The step sends a response other than the latest one.
Answered ==
    \/ reply'.req # reply.req
    \/ reply'.resp.status # reply.resp.status
    \/ reply'.resp.body # reply.resp.body

\* The step is a store call (or the rejection) of some request.
Served == Acting # {} \/ Answered

\* The step ends its request.
Responded == \A p \in Acting : pc'[p] = "idle"

\* The request the step belongs to.
StepReq ==
    IF Responded THEN reply'.req ELSE preq'[CHOOSE p \in Acting : TRUE]

\* C7: List episodes returns the episodes with season_id = null if unsorted
\* is true, whatever season_id is; otherwise the episodes whose season_id
\* equals the season_id parameter if it is given; otherwise all episodes.
\* The listing does not modify the store.
C7_ListEpisodes ==
    [][(Served /\ StepReq.op = "list_episodes") =>
          LET r == StepReq
              expected ==
                  IF r.unsorted THEN {e \in episode : e.season_id = None}
                  ELSE IF r.season_id # None
                  THEN {e \in episode : e.season_id = r.season_id}
                  ELSE episode
          IN /\ reply'.resp.status = 200
             /\ reply'.resp.body =
                   {[id |-> OidToStr(e._id), rating |-> e.rating,
                     season_id |-> e.season_id] : e \in expected}
             /\ episode' = episode
             /\ season' = season]_vars

C7_Witness ==
    /\ req.op = "list_episodes"
    /\ req.unsorted
    /\ req.season_id # None
    /\ resp.body # {}
    /\ \E e \in episode : e.season_id = req.season_id
    /\ \E q \in Procs : pc[q] = "read_episode"

IsEpisodeWrite(r) == r.op \in {"create_episode", "update_episode"}

\* C8: episode Create and Update accept a rating r exactly when
\* 1 <= r <= 10; a request with a rating outside that range fails validation
\* and leaves the episode collection unchanged, so every stored episode has
\* a rating in [1, 10].
C8_RatingRange ==
    /\ [](\A e \in episode : 1 <= e.rating /\ e.rating <= 10)
    /\ [][(Served /\ IsEpisodeWrite(StepReq)) =>
             LET r == StepReq
                 out == ~(1 <= r.payload.rating /\ r.payload.rating <= 10)
             IN /\ out <=> (Responded /\ reply'.resp.status = 422)
                /\ out => episode' = episode
                /\ (r.op = "create_episode" /\ ~Responded) =>
                      \E e \in episode' :
                          /\ e._id \notin DocIds(episode)
                          /\ e.rating = r.payload.rating]_vars

C8_Witness ==
    /\ req.op = "update_episode"
    /\ req.payload.rating = 11
    /\ resp.status = 422
    /\ \E e \in episode : e.rating = 10
    /\ \E e \in episode : e.rating = 1

\* C3: two seasons are simultaneously active only when the final write of
\* one is_active = true request fell between the bulk deactivate and the
\* final write of another, and that interleaving does reach a state with
\* two active seasons (C3_Witness).
C3_TwoActiveOnlyByRace == Cardinality(Active(season)) >= 2 => raced

C3_Witness ==
    /\ Cardinality(Active(season)) = 2
    /\ raced
    /\ \A p \in Procs : pc[p] = "idle"

IsInactiveWrite(r) ==
    /\ r.op \in {"create_season", "update_season"}
    /\ ~r.payload.is_active

\* C5: every step of a season Create or Update whose input has
\* is_active = false leaves the is_active value of every season other than
\* the one created or targeted unchanged, whatever other requests are being
\* served.
C5_InactiveWriteKeepsOthers ==
    [][(Served /\ IsInactiveWrite(StepReq)) =>
          \A d \in season :
              (StepReq.op = "update_season" => d._id # ObjectId(StepReq.id))
                  => \E e \in season' :
                        e._id = d._id /\ e.is_active = d.is_active]_vars

C5_Witness ==
    /\ IsInactiveWrite(req)
    /\ req.op = "update_season"
    /\ resp.status = 200
    /\ owner = Concurrent
    /\ \E d \in Active(season) : d._id # ObjectId(req.id)

\* C9: season Create returns a season with a generated id, and the listing
\* of the seasons contains every id a Create returned whose season no
\* Delete has removed since.
C9_CreatedIsListed ==
    /\ req.op = "create_season" =>
          /\ resp.status = 200
          /\ ObjectId(resp.body.id) # InvalidId
    /\ \A i \in created :
          \E d \in get_documents(season, NoFilter) : to_str_id(d).id = i

====
